---- MODULE Spec2Model ----
(***************************************************************************)
(* A model of libaribcaption's FreeType text renderer                      *)
(* (src/src/renderer/text_renderer_freetype.cpp):                          *)
(*   - the GSUB half-width parser (LoadGSUBTable, ReadScriptFeatureIndices,*)
(*     ReadCoverageTable) as operators over a byte buffer, every read      *)
(*     recorded so that out-of-bounds reads are visible;                   *)
(*   - the range expansion loop of ReadCoverageTable as a step machine;    *)
(*   - the renderer (SetFontFamily, DrawChar, LoadFontFace) as a state     *)
(*     machine over the face slots.                                        *)
(***************************************************************************)
EXTENDS Integers, Sequences, FiniteSets, TLC

VARIABLES
    gsub,        \* the table LoadGSUBTable works on: [present, bytes, beyond]
    gsub_out,    \* what LoadGSUBTable returned for gsub
    gpc,         \* "input" before the call of LoadGSUBTable, "done" after it
    start_glyph_id, end_glyph_id,   \* ReadCoverageTable, one range record
    glyph_id,                       \* the uint16_t loop counter of line 169
    coverage,                       \* the coverage vector being built
    rpc,                            \* position in the range record's processing
    font_family_,                   \* std::vector<std::string>
    main_face_, fallback_face_,     \* ScopedHolder<FT_Face>: NoFace or a face
    main_face_data_, fallback_face_data_,   \* std::vector<uint8_t>
    main_face_index_,               \* size_t
    main_half_width_subst_map_,     \* std::optional<std::unordered_map>
    fallback_half_width_subst_map_,
    last                            \* the last call: its arguments and what it did

gsubVars == <<gsub, gsub_out, gpc>>
rangeVars == <<start_glyph_id, end_glyph_id, glyph_id, coverage, rpc>>
rendererVars == <<font_family_, main_face_, fallback_face_, main_face_data_,
                  fallback_face_data_, main_face_index_,
                  main_half_width_subst_map_, fallback_half_width_subst_map_, last>>
vars == <<gsubVars, rangeVars, rendererVars>>

(***************************************************************************)
(* Widths.  uint16_t arithmetic is taken modulo 2^16.  FT_ULong is 32 or   *)
(* 64 bits wide; TLC's integers are 32-bit, so its unsigned wrap is taken  *)
(* modulo 2^30: every buffer length and every sum of offsets of this model *)
(* is far below 2^30, so each comparison has the outcome it has at the     *)
(* real width.                                                             *)
(***************************************************************************)
Uint16Modulus == 2 ^ 16
ULongModulus == 2 ^ 30

\* A face without a GSUB table: FT_Load_Sfnt_Table fails.
NoTable == [present |-> FALSE, bytes |-> <<>>, beyond |-> 0]

(***************************************************************************)
(* Bounds of the model.                                                    *)
(***************************************************************************)
\* Iterations of the range expansion loop that are followed before the
\* loop is reported as not having ended.
MaxExpand == 12
\* Glyph IDs the range step machine pushes before it is stopped.
MaxCoverage == 5
\* How far behind a rewritten word an input table is cut.
MaxTail == 6

----------------------------------------------------------------------------
(***************************************************************************)
(* Byte access.  data.bytes is the std::vector<uint8_t>; data.beyond is    *)
(* the byte an access past its end yields (undefined behaviour: any byte). *)
(***************************************************************************)
Size(data) == Len(data.bytes)

Byte(data, offset) ==
    IF offset < Size(data) THEN data.bytes[offset + 1] ELSE data.beyond

GetUint16(data, offset) == Byte(data, offset) * 256 + Byte(data, offset + 1)

\* Values of 2^30 and more are represented by 2^30 (see Widths).
GetUint32(data, offset) ==
    IF Byte(data, offset) >= 64
    THEN ULongModulus
    ELSE Byte(data, offset) * 16777216 + Byte(data, offset + 1) * 65536
         + Byte(data, offset + 2) * 256 + Byte(data, offset + 3)

GetOffset16(data, offset) == GetUint16(data, offset)

GetOffset32(data, offset) == GetUint32(data, offset)

GetInt16(data, offset) ==
    IF GetUint16(data, offset) >= 32768
    THEN GetUint16(data, offset) - Uint16Modulus
    ELSE GetUint16(data, offset)

FT_MAKE_TAG(a, b, c, d) == <<a, b, c, d>>

GetTag(data, offset) ==
    FT_MAKE_TAG(Byte(data, offset), Byte(data, offset + 1),
                Byte(data, offset + 2), Byte(data, offset + 3))

\* 'h' 'w' 'i' 'd',  'k' 'a' 'n' 'a',  'J' 'A' 'N' ' '
kOpenTypeFeatureHalfWidth == FT_MAKE_TAG(104, 119, 105, 100)
kOpenTypeScriptHiraganaKatakana == FT_MAKE_TAG(107, 97, 110, 97)
kOpenTypeLangSysJapanese == FT_MAKE_TAG(74, 65, 78, 32)

kRangeRecordSize == 6
kScriptRecordSize == 6
kLangSysRecordSize == 6
kFeatureRecordSize == 6

\* A read of n bytes at offset, added to the reads made so far.
Rd(rd, offset, n) == rd \cup {<<offset, n>>}

\* The read of lookupListIndices[lookup_index] (line 337), kept with the
\* value read as well.
RdLookupListIndex(rd, offset, lookup_list_index) ==
    Rd(rd, offset, 2) \cup {<<offset, 2, "lookupListIndices", lookup_list_index>>}

\* The read of lookupOffsets[lookup_list_index] (lines 341-342), kept with
\* the index as well.
RdLookupOffset(rd, offset, lookup_list_index) ==
    Rd(rd, offset, 2) \cup {<<offset, 2, "lookupOffsets", lookup_list_index>>}

EmptyMap == <<>>

MapPut(map, key, value) ==
    [g \in (DOMAIN map) \cup {key} |-> IF g = key THEN value ELSE map[g]]

----------------------------------------------------------------------------
(***************************************************************************)
(* ReadCoverageTable.  The result is [ok, coverage, rd, hang]: ok = FALSE  *)
(* is std::nullopt, rd the reads made, hang = TRUE when the range          *)
(* expansion loop did not end within MaxExpand iterations.                 *)
(***************************************************************************)
CoverageNullopt(rd) == [ok |-> FALSE, coverage |-> <<>>, rd |-> rd, hang |-> FALSE]

CoverageValue(cov, rd) == [ok |-> TRUE, coverage |-> cov, rd |-> rd, hang |-> FALSE]

\* The call of ReadCoverageTable for a subtable (lines 392-393), kept with
\* the offset it was given and what it returned.
RdCoverage(rd, coverage_offset, cv) ==
    rd \cup {<<0, 0, "coverage", coverage_offset,
               [ok |-> cv.ok, coverage |-> cv.coverage, hang |-> cv.hang]>>}

RECURSIVE CoverageFormat1(_, _, _, _, _, _)
CoverageFormat1(data, glyph_array_offset, glyph_count, coverage_index, cov, rd) ==
    IF ~(coverage_index < glyph_count)
    THEN CoverageValue(cov, rd)
    ELSE IF Size(data) < glyph_array_offset + coverage_index * 2 + 2
    THEN CoverageNullopt(rd)
    ELSE CoverageFormat1(data, glyph_array_offset, glyph_count, coverage_index + 1,
             Append(cov, GetUint16(data, glyph_array_offset + coverage_index * 2)),
             Rd(rd, glyph_array_offset + coverage_index * 2, 2))

\* The condition and the increment of `for (uint16_t glyph_id = start_glyph_id;
\* glyph_id <= end_glyph_id; glyph_id++)`.
RangeLoopCond(gid, end) == gid <= end

RangeLoopIncr(gid) == (gid + 1) % Uint16Modulus

RECURSIVE ExpandRange(_, _, _, _)
ExpandRange(gid, end, cov, fuel) ==
    IF ~RangeLoopCond(gid, end)
    THEN [coverage |-> cov, hang |-> FALSE]
    ELSE IF fuel = 0
    THEN [coverage |-> cov, hang |-> TRUE]
    ELSE ExpandRange(RangeLoopIncr(gid), end, Append(cov, gid), fuel - 1)

\* The validity test of a range record (line 164).
RangeRecordInvalid(start, end, start_coverage_index, coverage_index) ==
    start > end \/ start_coverage_index # coverage_index

RECURSIVE CoverageFormat2(_, _, _, _, _, _, _)
CoverageFormat2(data, range_records_offset, range_count, range_index, coverage_index, cov, rd) ==
    IF ~(range_index < range_count)
    THEN CoverageValue(cov, rd)
    ELSE IF Size(data) < range_records_offset + range_index * kRangeRecordSize
                         + kRangeRecordSize
    THEN CoverageNullopt(rd)
    ELSE
      LET rec  == range_records_offset + range_index * kRangeRecordSize
          start == GetUint16(data, rec)
          end   == GetUint16(data, rec + 2)
          start_coverage_index == GetUint16(data, rec + 4)
          rd2  == Rd(Rd(Rd(rd, rec, 2), rec + 2, 2), rec + 4, 2)
      IN IF RangeRecordInvalid(start, end, start_coverage_index, coverage_index)
         THEN CoverageNullopt(rd2)
         ELSE LET ex == ExpandRange(start, end, cov, MaxExpand)
              IN IF ex.hang
                 THEN [ok |-> FALSE, coverage |-> ex.coverage, rd |-> rd2,
                       hang |-> TRUE]
                 ELSE CoverageFormat2(data, range_records_offset, range_count,
                          range_index + 1, coverage_index + (end - start) + 1,
                          ex.coverage, rd2)

ReadCoverageTable(data, offset) ==
    IF Size(data) < offset + 2
    THEN CoverageNullopt({})
    ELSE IF GetUint16(data, offset) = 1
    THEN IF Size(data) < offset + 4
         THEN CoverageNullopt(Rd({}, offset, 2))
         ELSE CoverageFormat1(data, offset + 4, GetUint16(data, offset + 2), 0,
                  <<>>, Rd(Rd({}, offset, 2), offset + 2, 2))
    ELSE IF GetUint16(data, offset) = 2
    THEN IF Size(data) < offset + 4
         THEN CoverageNullopt(Rd({}, offset, 2))
         ELSE CoverageFormat2(data, offset + 4, GetUint16(data, offset + 2), 0,
                  0, <<>>, Rd(Rd({}, offset, 2), offset + 2, 2))
    ELSE CoverageNullopt(Rd({}, offset, 2))

----------------------------------------------------------------------------
(***************************************************************************)
(* ReadScriptFeatureIndices.  The result is [feature_indices, rd].         *)
(***************************************************************************)
NoFeatureIndices(rd) == [feature_indices |-> <<>>, rd |-> rd]

\* for (i < feature_index_count) of lines 252-258
RECURSIVE FeatureIndexLoop(_, _, _, _, _, _)
FeatureIndexLoop(data, feature_indices_offset, feature_index_count, i, feature_indices, rd) ==
    IF ~(i < feature_index_count)
    THEN [feature_indices |-> feature_indices, rd |-> rd]
    ELSE IF Size(data) < feature_indices_offset + i * 2 + 2
    THEN NoFeatureIndices(rd)
    ELSE FeatureIndexLoop(data, feature_indices_offset, feature_index_count, i + 1,
             Append(feature_indices, GetUint16(data, feature_indices_offset + i * 2)),
             Rd(rd, feature_indices_offset + i * 2, 2))

\* for (lang_sys_index < lang_sys_count) of lines 228-239: the result is
\* [fail, lang_sys_offset, rd].
RECURSIVE LangSysLoop(_, _, _, _, _, _, _)
LangSysLoop(data, script_offset, lang_sys_count, lang_sys_index, lang_sys_offset, required_lang_sys_tag, rd) ==
    IF ~(lang_sys_index < lang_sys_count)
    THEN [fail |-> FALSE, lang_sys_offset |-> lang_sys_offset, rd |-> rd]
    ELSE LET lang_sys_record_offset ==
                 script_offset + 4 + lang_sys_index * kLangSysRecordSize
         IN IF Size(data) < lang_sys_record_offset + kLangSysRecordSize
            THEN [fail |-> TRUE, lang_sys_offset |-> lang_sys_offset, rd |-> rd]
            ELSE IF GetTag(data, lang_sys_record_offset) = required_lang_sys_tag
            THEN [fail |-> FALSE,
                  lang_sys_offset |->
                      script_offset + GetUint16(data, lang_sys_record_offset + 4),
                  rd |-> Rd(Rd(rd, lang_sys_record_offset, 4),
                            lang_sys_record_offset + 4, 2)]
            ELSE LangSysLoop(data, script_offset, lang_sys_count, lang_sys_index + 1,
                     lang_sys_offset, required_lang_sys_tag,
                     Rd(rd, lang_sys_record_offset, 4))

\* Lines 243-259: the selected LangSys table.
ReadLangSys(data, lang_sys_offset, rd) ==
    IF Size(data) < lang_sys_offset + 6
    THEN NoFeatureIndices(rd)
    ELSE LET required_feature_index == GetUint16(data, lang_sys_offset + 2)
             feature_index_count == GetUint16(data, lang_sys_offset + 4)
         IN FeatureIndexLoop(data, lang_sys_offset + 6, feature_index_count, 0,
                IF required_feature_index # 65535
                THEN <<required_feature_index>> ELSE <<>>,
                Rd(Rd(rd, lang_sys_offset + 2, 2), lang_sys_offset + 4, 2))

\* for (script_index < script_count) of lines 210-260
RECURSIVE ScriptLoop(_, _, _, _, _, _, _)
ScriptLoop(data, script_list_offset, script_count, script_index, required_script_tag, required_lang_sys_tag, rd) ==
    IF ~(script_index < script_count)
    THEN NoFeatureIndices(rd)
    ELSE
      LET script_record_offset ==
              script_list_offset + 2 + script_index * kScriptRecordSize
      IN IF Size(data) < script_record_offset + kScriptRecordSize
         THEN NoFeatureIndices(rd)
         ELSE IF GetTag(data, script_record_offset) # required_script_tag
         THEN ScriptLoop(data, script_list_offset, script_count, script_index + 1,
                  required_script_tag, required_lang_sys_tag,
                  Rd(rd, script_record_offset, 4))
         ELSE
           LET script_offset ==
                   script_list_offset + GetOffset16(data, script_record_offset + 4)
               rd2 == Rd(Rd(rd, script_record_offset, 4), script_record_offset + 4, 2)
           IN IF Size(data) < script_offset + 4
              THEN NoFeatureIndices(rd2)
              ELSE
                LET default_lang_sys_offset ==
                        script_offset + GetOffset16(data, script_offset)
                    lang_sys_count == GetUint16(data, script_offset + 2)
                    ls == LangSysLoop(data, script_offset, lang_sys_count, 0,
                              default_lang_sys_offset, required_lang_sys_tag,
                              Rd(Rd(rd2, script_offset, 2), script_offset + 2, 2))
                IN IF ls.fail
                   THEN NoFeatureIndices(ls.rd)
                   ELSE IF ls.lang_sys_offset = script_offset
                   THEN ScriptLoop(data, script_list_offset, script_count,
                            script_index + 1, required_script_tag,
                            required_lang_sys_tag, ls.rd)
                   ELSE ReadLangSys(data, ls.lang_sys_offset, ls.rd)

ReadScriptFeatureIndices(data, script_list_offset, required_script_tag, required_lang_sys_tag) ==
    IF Size(data) < script_list_offset + 2
    THEN NoFeatureIndices({})
    ELSE ScriptLoop(data, script_list_offset, GetUint16(data, script_list_offset), 0,
             required_script_tag, required_lang_sys_tag,
             Rd({}, script_list_offset, 2))

----------------------------------------------------------------------------
(***************************************************************************)
(* LoadGSUBTable.  The result is [map, rd, hang, ret]: map the map         *)
(* returned, rd every read made as <<offset, bytes>>, hang = TRUE when the *)
(* call did not return, ret = TRUE when it left through a `return {}`.     *)
(***************************************************************************)
ReturnEmpty(rd) == [map |-> EmptyMap, rd |-> rd, hang |-> FALSE, ret |-> TRUE]

Hang(rd) == [map |-> EmptyMap, rd |-> rd, hang |-> TRUE, ret |-> FALSE]

Completed(map, rd) == [map |-> map, rd |-> rd, hang |-> FALSE, ret |-> FALSE]

\* Single Substitution Format 1 (lines 406-409)
RECURSIVE ApplyDelta(_, _, _, _)
ApplyDelta(map, cov, k, delta_glyph_id) ==
    IF k > Len(cov)
    THEN map
    ELSE ApplyDelta(MapPut(map, cov[k], (cov[k] + delta_glyph_id) % Uint16Modulus),
                    cov, k + 1, delta_glyph_id)

\* Single Substitution Format 2 (lines 421-432)
RECURSIVE SubstituteLoop(_, _, _, _, _, _, _)
SubstituteLoop(data, substitute_glyph_ids_offset, glyph_count, coverage_index, cov, map, rd) ==
    IF ~(coverage_index < glyph_count)
    THEN Completed(map, rd)
    ELSE IF Size(data) < substitute_glyph_ids_offset + coverage_index * 2 + 2
    THEN ReturnEmpty(rd)
    ELSE IF Len(cov) <= coverage_index
    THEN ReturnEmpty(Rd(rd, substitute_glyph_ids_offset + coverage_index * 2, 2))
    ELSE SubstituteLoop(data, substitute_glyph_ids_offset, glyph_count,
             coverage_index + 1, cov,
             MapPut(map, cov[coverage_index + 1],
                    GetUint16(data, substitute_glyph_ids_offset + coverage_index * 2)),
             Rd(rd, substitute_glyph_ids_offset + coverage_index * 2, 2))

\* LookupType 1 (lines 387-434), subst_format already read.
SingleSubstitution(data, subtable_offset, subst_format, map, rd) ==
    IF Size(data) < subtable_offset + 4
    THEN ReturnEmpty(rd)
    ELSE
      LET coverage_offset == subtable_offset + GetOffset16(data, subtable_offset + 2)
          cv  == ReadCoverageTable(data, coverage_offset)
          rd2 == RdCoverage(Rd(rd, subtable_offset + 2, 2) \cup cv.rd,
                            coverage_offset, cv)
      IN IF cv.hang THEN Hang(rd2)
         ELSE IF ~cv.ok THEN ReturnEmpty(rd2)
         ELSE IF subst_format = 1
         THEN IF Size(data) < subtable_offset + 6
              THEN ReturnEmpty(rd2)
              ELSE Completed(ApplyDelta(map, cv.coverage, 1,
                                        GetInt16(data, subtable_offset + 4)),
                             Rd(rd2, subtable_offset + 4, 2))
         ELSE IF subst_format = 2
         THEN \* glyph_count is read before the length is checked (416-419)
              IF Size(data) < subtable_offset + 6
              THEN ReturnEmpty(Rd(rd2, subtable_offset + 4, 2))
              ELSE SubstituteLoop(data, subtable_offset + 6,
                       GetUint16(data, subtable_offset + 4), 0, cv.coverage, map,
                       Rd(rd2, subtable_offset + 4, 2))
         ELSE Completed(map, rd2)

\* for (subtable_index < subtable_count) of lines 357-435.  lookup_type is
\* carried from one subtable to the next: an extension subtable overwrites it.
RECURSIVE SubtableLoop(_, _, _, _, _, _, _, _)
SubtableLoop(data, lookup_offset, subtable_count, subtable_index, lookup_type, is_extension, map, rd) ==
    IF ~(subtable_index < subtable_count)
    THEN Completed(map, rd)
    ELSE IF Size(data) < lookup_offset + 6 + subtable_index * 2 + 2
    THEN ReturnEmpty(rd)
    ELSE
      LET subtable_offset ==
              lookup_offset + GetOffset16(data, lookup_offset + 6 + subtable_index * 2)
          rd2 == Rd(rd, lookup_offset + 6 + subtable_index * 2, 2)
      IN IF Size(data) < subtable_offset + 2
         THEN ReturnEmpty(rd2)
         ELSE
           LET rd3 == Rd(rd2, subtable_offset, 2)
           IN IF is_extension
              THEN IF GetUint16(data, subtable_offset) # 1
                   THEN SubtableLoop(data, lookup_offset, subtable_count,
                            subtable_index + 1, lookup_type, is_extension, map, rd3)
                   ELSE IF Size(data) < subtable_offset + 8
                   THEN ReturnEmpty(rd3)
                   ELSE
                     LET extension_lookup_type == GetUint16(data, subtable_offset + 2)
                         real_offset ==
                             subtable_offset + GetOffset32(data, subtable_offset + 4)
                         rd4 == Rd(Rd(rd3, subtable_offset + 2, 2),
                                   subtable_offset + 4, 4)
                     IN IF Size(data) < real_offset + 2
                        THEN ReturnEmpty(rd4)
                        ELSE
                          LET st == IF extension_lookup_type = 1
                                    THEN SingleSubstitution(data, real_offset,
                                             GetUint16(data, real_offset), map,
                                             Rd(rd4, real_offset, 2))
                                    ELSE Completed(map, Rd(rd4, real_offset, 2))
                          IN IF st.ret \/ st.hang THEN st
                             ELSE SubtableLoop(data, lookup_offset, subtable_count,
                                      subtable_index + 1, extension_lookup_type,
                                      is_extension, st.map, st.rd)
              ELSE
                LET st == IF lookup_type = 1
                          THEN SingleSubstitution(data, subtable_offset,
                                   GetUint16(data, subtable_offset), map, rd3)
                          ELSE Completed(map, rd3)
                IN IF st.ret \/ st.hang THEN st
                   ELSE SubtableLoop(data, lookup_offset, subtable_count,
                            subtable_index + 1, lookup_type, is_extension,
                            st.map, st.rd)

\* The bound the LookupList's own count would give.
LookupCountBound(feature_count, lookup_count) == lookup_count

\* The bound a lookup-list index is tested against (line 338).
LookupIndexBound(feature_count, lookup_count) == feature_count

\* for (lookup_index < lookup_index_count) of lines 333-436
RECURSIVE LookupLoop(_, _, _, _, _, _, _)
LookupLoop(data, c, lookup_list_indices_offset, lookup_index_count, lookup_index, map, rd) ==
    IF ~(lookup_index < lookup_index_count)
    THEN Completed(map, rd)
    ELSE IF Size(data) < lookup_list_indices_offset + lookup_index * 2 + 2
    THEN ReturnEmpty(rd)
    ELSE
      LET lookup_list_index ==
              GetUint16(data, lookup_list_indices_offset + lookup_index * 2)
          rd2 == RdLookupListIndex(rd, lookup_list_indices_offset + lookup_index * 2,
                                   lookup_list_index)
      IN IF lookup_list_index >= LookupIndexBound(c.feature_count, c.lookup_count)
            \/ Size(data) < c.lookup_list_offset + 2 + lookup_list_index * 2 + 2
         THEN ReturnEmpty(rd2)
         ELSE
           LET lookup_offset ==
                   c.lookup_list_offset
                   + GetOffset16(data, c.lookup_list_offset + 2 + lookup_list_index * 2)
               rd3 == RdLookupOffset(rd2, c.lookup_list_offset + 2 + lookup_list_index * 2,
                                     lookup_list_index)
           IN IF Size(data) < lookup_offset + 6
              THEN ReturnEmpty(rd3)
              ELSE
                LET lookup_type == GetUint16(data, lookup_offset)
                    subtable_count == GetUint16(data, lookup_offset + 4)
                    st == SubtableLoop(data, lookup_offset, subtable_count, 0,
                              lookup_type, lookup_type = 7, map,
                              Rd(Rd(Rd(rd3, lookup_offset, 2), lookup_offset + 2, 2),
                                 lookup_offset + 4, 2))
                IN IF st.ret \/ st.hang THEN st
                   ELSE LookupLoop(data, c, lookup_list_indices_offset,
                            lookup_index_count, lookup_index + 1, st.map, st.rd)

\* for (feature_index : feature_indices) of lines 308-438; k is 1-based.
RECURSIVE FeatureLoop(_, _, _, _, _)
FeatureLoop(data, c, feature_indices, k, rd) ==
    IF k > Len(feature_indices)
    THEN Completed(EmptyMap, rd)
    ELSE
      LET feature_index == feature_indices[k]
          feature_record_offset ==
              c.feature_list_offset + 2 + feature_index * kFeatureRecordSize
      IN IF feature_index >= c.feature_count
            \/ Size(data) < feature_record_offset + kFeatureRecordSize
         THEN ReturnEmpty(rd)
         ELSE IF GetTag(data, feature_record_offset) # c.required_feature_tag
         THEN FeatureLoop(data, c, feature_indices, k + 1,
                  Rd(rd, feature_record_offset, 4))
         ELSE
           LET feature_offset ==
                   c.feature_list_offset
                   + GetOffset16(data, feature_record_offset + 4)
               rd2 == Rd(Rd(rd, feature_record_offset, 4), feature_record_offset + 4, 2)
           IN IF Size(data) < feature_offset + 4
              THEN ReturnEmpty(rd2)
              ELSE IF GetOffset16(data, feature_offset) # 0
              THEN ReturnEmpty(Rd(rd2, feature_offset, 2))
              ELSE LookupLoop(data, c, feature_offset + 4,
                       GetUint16(data, feature_offset + 2), 0, EmptyMap,
                       Rd(Rd(rd2, feature_offset, 2), feature_offset + 2, 2))

\* The length test of the header (line 283): gsub_size is an FT_ULong.
HeaderTooShort(gsub_size) == (gsub_size - 2) % ULongModulus < 8

LoadGSUBTable(data, required_feature_tag, script_tag, lang_sys_tag) ==
    IF ~data.present
    THEN ReturnEmpty({})
    ELSE IF HeaderTooShort(Size(data))
    THEN ReturnEmpty({})
    ELSE
      LET script_list_offset == GetOffset16(data, 4)
          fi == ReadScriptFeatureIndices(data, script_list_offset, script_tag,
                                         lang_sys_tag)
          feature_list_offset == GetOffset16(data, 6)
          lookup_list_offset == GetOffset16(data, 8)
          \* read before lookup_list_offset is checked (301-305)
          lookup_count == GetUint16(data, lookup_list_offset)
          rd1 == Rd(Rd(Rd(Rd({}, 4, 2) \cup fi.rd, 6, 2), 8, 2), lookup_list_offset, 2)
      IN IF Size(data) < lookup_list_offset + 2 \/ Size(data) < feature_list_offset + 2
         THEN ReturnEmpty(rd1)
         ELSE FeatureLoop(data,
                  [feature_list_offset |-> feature_list_offset,
                   feature_count |-> GetUint16(data, feature_list_offset),
                   lookup_list_offset |-> lookup_list_offset,
                   lookup_count |-> lookup_count,
                   required_feature_tag |-> required_feature_tag],
                  fi.feature_indices, 1, Rd(rd1, feature_list_offset, 2))

----------------------------------------------------------------------------
(***************************************************************************)
(* Input tables: four well-formed GSUB tables, each with one 16-bit word   *)
(* rewritten and the table cut short.                                      *)
(***************************************************************************)
W(v) == <<v \div 256, v % 256>>

HeaderBytes(script_list, feature_list, lookup_list) ==
    W(1) \o W(0) \o W(script_list) \o W(feature_list) \o W(lookup_list)

\* One script 'kana' with a 'JAN ' LangSys holding feature 0 = 'hwid',
\* whose only lookup is lookup 0.
CommonPrefix ==
    HeaderBytes(10, 36, 50)
    \o W(1) \o kOpenTypeScriptHiraganaKatakana \o W(8)
    \o W(0) \o W(1) \o kOpenTypeLangSysJapanese \o W(10)
    \o W(0) \o W(65535) \o W(1) \o W(0)
    \o W(1) \o kOpenTypeFeatureHalfWidth \o W(8)
    \o W(0) \o W(1) \o W(0)
    \o W(1) \o W(4)

\* Single substitution format 1 (delta +1) over coverage format 1 {5, 9}.
TableDelta ==
    CommonPrefix
    \o W(1) \o W(0) \o W(1) \o W(8)
    \o W(1) \o W(6) \o W(1)
    \o W(1) \o W(2) \o W(5) \o W(9)

\* Single substitution format 2 over coverage format 2, ranges 5..6 and 9..9.
TableList ==
    CommonPrefix
    \o W(1) \o W(0) \o W(1) \o W(8)
    \o W(2) \o W(12) \o W(3) \o W(20) \o W(21) \o W(22)
    \o W(2) \o W(2) \o W(5) \o W(6) \o W(0) \o W(9) \o W(9) \o W(2)

\* An extension lookup (type 7) leading to a format 1 subtable, delta -1.
TableExtension ==
    CommonPrefix
    \o W(7) \o W(0) \o W(1) \o W(8)
    \o W(1) \o W(1) \o W(0) \o W(8)
    \o W(1) \o W(6) \o W(65535)
    \o W(1) \o W(1) \o W(5)

\* Two scripts, the default LangSys with a required feature, two features,
\* two lookups (the second of a type that is not handled), two subtables.
TableWide ==
    HeaderBytes(10, 36, 58)
    \o W(2) \o <<68, 70, 76, 84>> \o W(14) \o kOpenTypeScriptHiraganaKatakana \o W(14)
    \o W(4) \o W(0)
    \o W(0) \o W(0) \o W(1) \o W(1)
    \o W(2) \o <<107, 101, 114, 110>> \o W(14) \o kOpenTypeFeatureHalfWidth \o W(14)
    \o W(0) \o W(2) \o W(0) \o W(1)
    \o W(2) \o W(6) \o W(28)
    \o W(1) \o W(0) \o W(2) \o W(10) \o W(10)
    \o W(1) \o W(6) \o W(2)
    \o W(1) \o W(1) \o W(5)
    \o W(3) \o W(0) \o W(1) \o W(8)
    \o W(1)

\* One feature and two lookups; the feature 'hwid' uses the second lookup,
\* a single substitution format 1 (delta +1) over coverage format 1 {5, 9}.
TableSecondLookup ==
    HeaderBytes(10, 36, 50)
    \o W(1) \o kOpenTypeScriptHiraganaKatakana \o W(8)
    \o W(0) \o W(1) \o kOpenTypeLangSysJapanese \o W(10)
    \o W(0) \o W(65535) \o W(1) \o W(0)
    \o W(1) \o kOpenTypeFeatureHalfWidth \o W(8)
    \o W(0) \o W(1) \o W(1)
    \o W(2) \o W(6) \o W(6)
    \o W(1) \o W(0) \o W(1) \o W(8)
    \o W(1) \o W(6) \o W(1)
    \o W(1) \o W(2) \o W(5) \o W(9)

\* One lookup of two subtables, both single substitution format 1: delta +1
\* over coverage format 1 {5}, then delta +3 over coverage format 2 with
\* ranges 7..8 and 12..12.
TableTwoSubtables ==
    CommonPrefix
    \o W(1) \o W(0) \o W(2) \o W(10) \o W(22)
    \o W(1) \o W(6) \o W(1)
    \o W(1) \o W(1) \o W(5)
    \o W(1) \o W(6) \o W(3)
    \o W(2) \o W(2) \o W(7) \o W(8) \o W(0) \o W(12) \o W(12) \o W(2)

Templates ==
    {TableDelta, TableList, TableExtension, TableWide, TableSecondLookup,
     TableTwoSubtables}

MutValues == {0, 1, 2, 7, 65535}

Take(s, n) == SubSeq(s, 1, n)

\* t with the 16-bit word at offset p replaced by v
Rewrite(t, p, v) ==
    [i \in 1..Len(t) |-> IF i = p + 1 THEN v \div 256
                         ELSE IF i = p + 2 THEN v % 256 ELSE t[i]]

WordOffsets(t) == {p \in 0..(Len(t) - 2) : p % 2 = 0}

CutLengths(t, p) ==
    {0, 1, Len(t)} \cup {n \in (p + 2)..(p + MaxTail) : n <= Len(t)}

InputTables ==
    {NoTable} \cup
    UNION {
      UNION {
        { [present |-> TRUE, bytes |-> Take(Rewrite(t, p, v), n), beyond |-> b] :
            v \in MutValues \cup {t[p + 1] * 256 + t[p + 2]},
            n \in CutLengths(t, p), b \in {0, 255} }
        : p \in WordOffsets(t) }
      : t \in Templates }

\* The reads of a LoadGSUBTable result that lie, in part or whole, beyond
\* the end of the buffer.
OutOfBounds(data, out) ==
    {r \in out.rd : r[1] + r[2] > Size(data)}

----------------------------------------------------------------------------
(***************************************************************************)
(* The GSUB specification: LoadGSUBTable applied to each input table.      *)
(***************************************************************************)
GsubIdle ==
    /\ gsub = NoTable
    /\ gsub_out = ReturnEmpty({})
    /\ gpc = "idle"

GsubInit ==
    /\ gsub \in InputTables
    /\ gsub_out = ReturnEmpty({})
    /\ gpc = "input"

GsubLoad ==
    /\ gpc = "input"
    /\ gsub_out' = LoadGSUBTable(gsub, kOpenTypeFeatureHalfWidth,
                                 kOpenTypeScriptHiraganaKatakana,
                                 kOpenTypeLangSysJapanese)
    /\ gpc' = "done"
    /\ UNCHANGED <<gsub, rangeVars, rendererVars>>

----------------------------------------------------------------------------
(***************************************************************************)
(* The range specification: one range record of a coverage format 2        *)
(* table (lines 161-171), the expansion loop taken one iteration at a time.*)
(***************************************************************************)
BoundaryGlyphs == {0, 1, 2, 65533, 65534, 65535}

RangeIdle ==
    /\ start_glyph_id = 0
    /\ end_glyph_id = 0
    /\ glyph_id = 0
    /\ coverage = <<>>
    /\ rpc = "idle"

RangeInit ==
    /\ start_glyph_id \in BoundaryGlyphs
    /\ end_glyph_id \in BoundaryGlyphs
    /\ glyph_id = 0
    /\ coverage = <<>>
    /\ rpc = "record"

\* line 164, with start_coverage_index equal to the running index
RangeCheck ==
    /\ rpc = "record"
    /\ IF RangeRecordInvalid(start_glyph_id, end_glyph_id, 0, 0)
       THEN rpc' = "nullopt" /\ glyph_id' = glyph_id
       ELSE rpc' = "expand" /\ glyph_id' = start_glyph_id
    /\ UNCHANGED <<start_glyph_id, end_glyph_id, coverage, gsubVars, rendererVars>>

\* one iteration of the loop of lines 169-171
RangeStep ==
    /\ rpc = "expand"
    /\ RangeLoopCond(glyph_id, end_glyph_id)
    /\ Len(coverage) < MaxCoverage
    /\ coverage' = Append(coverage, glyph_id)
    /\ glyph_id' = RangeLoopIncr(glyph_id)
    /\ UNCHANGED <<start_glyph_id, end_glyph_id, rpc, gsubVars, rendererVars>>

\* the loop's exit
RangeExit ==
    /\ rpc = "expand"
    /\ ~RangeLoopCond(glyph_id, end_glyph_id)
    /\ rpc' = "done"
    /\ UNCHANGED <<start_glyph_id, end_glyph_id, glyph_id, coverage, gsubVars,
                   rendererVars>>

----------------------------------------------------------------------------
(***************************************************************************)
(* The renderer's collaborators.  Fonts are named by their family: font    *)
(* "A" (a file) maps U+0041 to glyph 5 and carries TableDelta, font "B"    *)
(* (in-memory data) maps U+30A2 to glyph 9 and carries TableWide; U+1F600  *)
(* is in neither.  The provider knows no family "N"; for "B" it reports    *)
(* kCodePointNotFound when asked for a code point that "B" lacks, for "A"  *)
(* it returns the face whatever the code point.                            *)
(***************************************************************************)
FamilyNames == {"A", "B", "N"}

\* Family lists handed to SetFontFamily hold at most MaxFamilies names.
MaxFamilies == 3
\* Faces of a font collection enumerated when face_index < 0.
MaxFaces == 2

RECURSIVE SeqsUpTo(_, _)
SeqsUpTo(S, n) ==
    IF n = 0 THEN {<<>>}
    ELSE SeqsUpTo(S, n - 1)
         \cup {Append(q, x) : q \in {t \in SeqsUpTo(S, n - 1) : Len(t) = n - 1}, x \in S}

\* The lists SetFontFamily is called with: every list of at most two names,
\* the longer ones whose first family is the file font, and one whose first
\* family the provider does not know.
FamilyLists ==
    {q \in SeqsUpTo(FamilyNames, MaxFamilies) :
        Len(q) <= 2 \/ q[1] = "A" \/ q = <<"N", "A", "B">>}

CodePoints == {32, 65, 8202, 12288, 12450, 128512}

NoFace == [font |-> "", memory |-> FALSE, index |-> 0]

NoData == ""

FT_Get_Char_Index(face, ucs4) ==
    IF face.font = "A" /\ ucs4 = 65 THEN 5
    ELSE IF face.font = "B" /\ ucs4 = 12450 THEN 9
    ELSE 0

FT_Load_Sfnt_Table(face) ==
    IF face.font = "A" THEN [present |-> TRUE, bytes |-> TableDelta, beyond |-> 0]
    ELSE IF face.font = "B" THEN [present |-> TRUE, bytes |-> TableWide, beyond |-> 0]
    ELSE NoTable

\* FontProvider::GetFontFace(font_name, codepoint): codepoint is <<>>
\* (std::nullopt) or <<c>>.
GetFontFace(font_name, codepoint) ==
    IF font_name \notin {"A", "B"}
    THEN [ok |-> FALSE, error |-> "kFontNotFound", font |-> "", font_data |-> NoData]
    ELSE IF font_name = "B" /\ codepoint # <<>>
            /\ FT_Get_Char_Index([font |-> "B"], codepoint[1]) = 0
    THEN [ok |-> FALSE, error |-> "kCodePointNotFound", font |-> "",
          font_data |-> NoData]
    ELSE [ok |-> TRUE, error |-> "", font |-> font_name,
          font_data |-> IF font_name = "B" THEN "B" ELSE NoData]

\* What one LoadFontFace call meets once the provider has answered: whether
\* the first FT_New_Face / FT_New_Memory_Face succeeds, the face_index and
\* the names of the provider's FontfaceInfo, and for a collection of
\* num_faces faces the index whose names match (num_faces: none) and the
\* index whose re-opening fails (num_faces: none).
OpenScenarios ==
    { [open_ok |-> FALSE, face_index |-> 0, has_names |-> TRUE,
       num_faces |-> MaxFaces, match |-> 0, reopen_fail |-> MaxFaces],
      [open_ok |-> TRUE, face_index |-> 0, has_names |-> TRUE,
       num_faces |-> MaxFaces, match |-> 0, reopen_fail |-> MaxFaces],
      [open_ok |-> TRUE, face_index |-> -1, has_names |-> FALSE,
       num_faces |-> MaxFaces, match |-> 0, reopen_fail |-> MaxFaces] }
    \cup { [open_ok |-> TRUE, face_index |-> -1, has_names |-> TRUE,
            num_faces |-> MaxFaces, match |-> m, reopen_fail |-> MaxFaces] :
           m \in (MaxFaces - 1)..MaxFaces }
    \cup { [open_ok |-> TRUE, face_index |-> -1, has_names |-> TRUE,
            num_faces |-> MaxFaces, match |-> MaxFaces, reopen_fail |-> 0] }

NoScenario ==
    [open_ok |-> TRUE, face_index |-> 0, has_names |-> TRUE,
     num_faces |-> MaxFaces, match |-> 0, reopen_fail |-> MaxFaces]

\* FontProviderErrorToStatus: provider errors are mapped 1:1.
FontProviderErrorToStatus(error) == error

----------------------------------------------------------------------------
(***************************************************************************)
(* LoadFontFace.  r is the renderer's state as a record.  The result is    *)
(* [ok, error, face, font_index, calls, r, opened, released, ub]: calls    *)
(* the provider calls made as <<family index, codepoint>>, r the state     *)
(* after the call, opened / released the face handles opened and passed to *)
(* FT_Done_Face, ub = TRUE when font_family_ was indexed out of range.     *)
(***************************************************************************)
\* lines 689-695: the first provider call and the while loop
RECURSIVE ProviderWalk(_, _, _, _)
ProviderWalk(family, font_index, codepoint, calls) ==
    LET result == GetFontFace(family[font_index + 1], codepoint)
        calls2 == Append(calls, <<font_index, codepoint>>)
    IN IF ~result.ok /\ font_index + 1 < Len(family)
       THEN ProviderWalk(family, font_index + 1, codepoint, calls2)
       ELSE [result |-> result, font_index |-> font_index, calls |-> calls2]

\* lines 743-768: the enumeration of a collection's faces
RECURSIVE EnumerateFaces(_, _, _, _)
EnumerateFaces(o, i, opened, released) ==
    IF ~(i < o.num_faces)
    THEN [ok |-> FALSE, error |-> "kFontNotFound", opened |-> opened,
          released |-> released]
    ELSE IF o.reopen_fail = i
    THEN [ok |-> FALSE, error |-> "kFontNotFound", opened |-> opened,
          released |-> released + 1]
    ELSE IF o.match = i
    THEN [ok |-> TRUE, error |-> "", opened |-> opened + 1,
          released |-> released + 1]
    ELSE EnumerateFaces(o, i + 1, opened + 1, released + 1)

\* lines 718-769
OpenFace(o) ==
    IF ~o.open_ok
    THEN [ok |-> FALSE, error |-> "kFontNotFound", opened |-> 0, released |-> 0]
    ELSE IF o.face_index >= 0
    THEN [ok |-> TRUE, error |-> "", opened |-> 1, released |-> 0]
    ELSE IF ~o.has_names
    THEN [ok |-> FALSE, error |-> "kOtherError", opened |-> 1, released |-> 0]
    ELSE EnumerateFaces(o, 0, 1, 0)

\* A LoadFontFace that reports every provider failure as kFontNotFound.
AlwaysFontNotFound(error) == "kFontNotFound"

\* The error LoadFontFace returns when the provider failed for every family
\* it was asked for (line 698).
ProviderFailure(error) == error

\* lines 703-716: in-memory font data is moved into the slot, whose face is
\* reset first.
TakeFontData(r, is_fallback, font_data) ==
    IF font_data = NoData THEN r
    ELSE IF ~is_fallback
    THEN [r EXCEPT !.main_face_ = NoFace, !.main_face_data_ = font_data]
    ELSE [r EXCEPT !.fallback_face_ = NoFace, !.fallback_face_data_ = font_data]

LoadFontFace(r, is_fallback, codepoint, begin_index, o) ==
    IF begin_index # <<>> /\ begin_index[1] >= Len(r.font_family_)
    THEN [ok |-> FALSE, error |-> "kFontNotFound", face |-> NoFace, font_index |-> 0,
          calls |-> <<>>, r |-> r, opened |-> 0, released |-> 0, ub |-> FALSE]
    ELSE
      LET font_index == IF begin_index # <<>> THEN begin_index[1] ELSE 0
      IN IF ~(font_index < Len(r.font_family_))
         THEN \* font_family_[0] of an empty vector: the name is indeterminate
              [ok |-> FALSE, error |-> "kFontNotFound", face |-> NoFace,
               font_index |-> 0, calls |-> <<<<font_index, codepoint>>>>, r |-> r,
               opened |-> 0, released |-> 0, ub |-> TRUE]
         ELSE
           LET w == ProviderWalk(r.font_family_, font_index, codepoint, <<>>)
           IN IF ~w.result.ok
              THEN [ok |-> FALSE, error |-> ProviderFailure(w.result.error),
                    face |-> NoFace, font_index |-> w.font_index, calls |-> w.calls,
                    r |-> r, opened |-> 0, released |-> 0, ub |-> FALSE]
              ELSE
                LET r2 == TakeFontData(r, is_fallback, w.result.font_data)
                    f  == OpenFace(o)
                IN [ok |-> f.ok, error |-> f.error,
                    face |-> IF f.ok
                             THEN [font |-> w.result.font,
                                   memory |-> w.result.font_data # NoData,
                                   index |-> w.font_index]
                             ELSE NoFace,
                    font_index |-> w.font_index, calls |-> w.calls, r |-> r2,
                    opened |-> f.opened, released |-> f.released, ub |-> FALSE]

----------------------------------------------------------------------------
(***************************************************************************)
(* The renderer.                                                           *)
(***************************************************************************)
\* std::nullopt; src is the font of the face the map was computed from
NoMap == [computed |-> FALSE, map |-> EmptyMap, src |-> ""]

RendererState ==
    [font_family_ |-> font_family_,
     main_face_ |-> main_face_, fallback_face_ |-> fallback_face_,
     main_face_data_ |-> main_face_data_,
     fallback_face_data_ |-> fallback_face_data_,
     main_face_index_ |-> main_face_index_,
     main_half_width_subst_map_ |-> main_half_width_subst_map_,
     fallback_half_width_subst_map_ |-> fallback_half_width_subst_map_]

Policies == {"kAuto", "kFailOnCodePointNotFound"}

\* <<char_width, char_height>>
CharSizes == {<<15, 31>>, <<20, 32>>}

FailPoints ==
    {"FT_Set_Pixel_Sizes", "FT_Load_Glyph", "FT_Get_Glyph", "FT_Glyph_To_Bitmap",
     "stroke FT_Get_Glyph", "stroke FT_Glyph_To_Bitmap"}

\* The style arguments of a draw and the outline library call that fails
\* in it, if any.
RenderCases ==
    { [fail |-> "stroke FT_Glyph_To_Bitmap", style |-> {"kCharStyleUnderline"},
       stroke_width |-> 2, underline_info |-> TRUE, underline_thickness |-> 0] }
    \cup { [fail |-> f, style |-> {"kCharStyleStroke", "kCharStyleUnderline"},
            stroke_width |-> 2, underline_info |-> TRUE, underline_thickness |-> 2] :
           f \in FailPoints \cup {"none"} }

\* The record of a call that has not done anything yet.
Report(op, ucs4, fallback_policy, size) ==
    [op |-> op, ret |-> TRUE, ucs4 |-> ucs4, fallback_policy |-> fallback_policy,
     status |-> "kOK", calls |-> <<>>, main_load |-> "none",
     fallback_load |-> "none", slot |-> "none", glyph_index |-> 0,
     pixel_sizes |-> <<>>, failed_at |-> "none", canvas_ops |-> <<>>,
     ub |-> FALSE, font_family |-> <<>>, char_size |-> <<>>]

\* A whitespace test that knows the ASCII blanks only.
IsAsciiSpace(ucs4) == ucs4 \in {9, 32}

\* lines 453-454
IsSpace(ucs4) ==
    \/ ucs4 \in {9, 32, 160, 5760, 12288, 8239, 8287}
    \/ (ucs4 >= 8192 /\ ucs4 <= 8202)

LoadOutcome(res) == IF res.ok THEN "ok" ELSE res.error

\* lines 458-469.  d is [r, rep, returned, slot, glyph_index]: the state,
\* the record of the call, whether DrawChar has returned, the slot of the
\* face selected and the glyph resolved.
MainStage(r, rep, o) ==
    IF r.main_face_ # NoFace
    THEN [r |-> r, rep |-> rep, returned |-> FALSE, slot |-> "main", glyph_index |-> 0]
    ELSE
      LET res == LoadFontFace(r, FALSE, <<>>, <<>>, o)
          rep2 == [rep EXCEPT !.calls = rep.calls \o res.calls,
                              !.main_load = LoadOutcome(res),
                              !.ub = res.ub]
      IN IF ~res.ok
         THEN [r |-> res.r,
               rep |-> [rep2 EXCEPT !.status = FontProviderErrorToStatus(res.error)],
               returned |-> TRUE, slot |-> "none", glyph_index |-> 0]
         ELSE [r |-> [res.r EXCEPT !.main_face_ = res.face,
                                   !.main_face_index_ = res.font_index],
               rep |-> rep2, returned |-> FALSE, slot |-> "main", glyph_index |-> 0]

\* A renderer that ignores the policy.
FallbackNeverForbidden(fallback_policy) == FALSE

\* line 477
FallbackForbidden(fallback_policy) == fallback_policy = "kFailOnCodePointNotFound"

\* A test that takes any fallback face held, whatever glyphs it has.
FallbackFaceHeld(r, ucs4) == r.fallback_face_ # NoFace

\* The test of line 482: a fallback face is held and has the glyph.
FallbackFaceHasGlyph(r, ucs4) ==
    r.fallback_face_ # NoFace /\ FT_Get_Char_Index(r.fallback_face_, ucs4) # 0

\* The tests of lines 473-488 that lead to the fallback load of line 490.
NeedsFallbackLoad(r, ucs4, fallback_policy) ==
    /\ FT_Get_Char_Index(r.main_face_, ucs4) = 0
    /\ ~FallbackForbidden(fallback_policy)
    /\ ~FallbackFaceHasGlyph(r, ucs4)
    /\ ~(r.main_face_index_ + 1 >= Len(r.font_family_))

\* A fallback load that starts again at the primary face's family.
FallbackBeginAtMain(main_face_index) == main_face_index

\* The first family index the fallback load asks the provider for (line 490).
FallbackBeginIndex(main_face_index) == main_face_index + 1

\* The fallback slot after a successful fallback load (line 496).
StoreFallbackFace(r, face) == [r EXCEPT !.fallback_face_ = face]

\* lines 471-506
GlyphStage(d, ucs4, fallback_policy, o) ==
    LET r == d.r
        main_glyph == FT_Get_Char_Index(r.main_face_, ucs4)
    IN IF main_glyph # 0
       THEN [d EXCEPT !.slot = "main", !.glyph_index = main_glyph]
       ELSE IF FallbackForbidden(fallback_policy)
       THEN [d EXCEPT !.returned = TRUE, !.slot = "none",
                      !.rep = [d.rep EXCEPT !.status = "kCodePointNotFound"]]
       ELSE IF FallbackFaceHasGlyph(r, ucs4)
       THEN [d EXCEPT !.slot = "fallback",
                      !.glyph_index = FT_Get_Char_Index(r.fallback_face_, ucs4)]
       ELSE IF r.main_face_index_ + 1 >= Len(r.font_family_)
       THEN [d EXCEPT !.returned = TRUE, !.slot = "none",
                      !.rep = [d.rep EXCEPT !.status = "kCodePointNotFound"]]
       ELSE
         LET res == LoadFontFace(r, TRUE, <<ucs4>>,
                                 <<FallbackBeginIndex(r.main_face_index_)>>, o)
             rep2 == [d.rep EXCEPT !.calls = d.rep.calls \o res.calls,
                                   !.fallback_load = LoadOutcome(res)]
         IN IF ~res.ok
            THEN [r |-> res.r,
                  rep |-> [rep2 EXCEPT !.status = FontProviderErrorToStatus(res.error)],
                  returned |-> TRUE, slot |-> "none", glyph_index |-> 0]
            ELSE IF FT_Get_Char_Index(res.face, ucs4) = 0
            THEN [r |-> StoreFallbackFace(res.r, res.face),
                  rep |-> [rep2 EXCEPT !.status = "kCodePointNotFound"],
                  returned |-> TRUE, slot |-> "none", glyph_index |-> 0]
            ELSE [r |-> StoreFallbackFace(res.r, res.face), rep |-> rep2,
                  returned |-> FALSE, slot |-> "fallback",
                  glyph_index |-> FT_Get_Char_Index(res.face, ucs4)]

\* LoadGSUBTable(face, 'hwid', 'kana', 'JAN ') for the face of each font
\* (lines 511-517)
FaceSubstMap ==
    [font \in FamilyNames |->
       LoadGSUBTable(FT_Load_Sfnt_Table([font |-> font]), kOpenTypeFeatureHalfWidth,
                     kOpenTypeScriptHiraganaKatakana, kOpenTypeLangSysJapanese).map]

ComputeMap(face) ==
    [computed |-> TRUE, map |-> FaceSubstMap[face.font], src |-> face.font]

SlotFace(r, slot) == IF slot = "main" THEN r.main_face_ ELSE r.fallback_face_

SlotMap(r, slot) ==
    IF slot = "main" THEN r.main_half_width_subst_map_
    ELSE r.fallback_half_width_subst_map_

StoreMap(r, slot, subst_map) ==
    IF slot = "main" THEN [r EXCEPT !.main_half_width_subst_map_ = subst_map]
    ELSE [r EXCEPT !.fallback_half_width_subst_map_ = subst_map]

\* lines 508-519: the selected slot's map is computed if it is absent
EnsureMap(r, slot, char_width, char_height) ==
    IF char_width = char_height \div 2 /\ ~SlotMap(r, slot).computed
    THEN StoreMap(r, slot, ComputeMap(SlotFace(r, slot)))
    ELSE r

\* A substitution that replaces the glyph and keeps the requested width.
SubstituteKeepWidth(subst_map, glyph_index, char_width, char_height) ==
    IF char_width = char_height \div 2 /\ subst_map.computed
       /\ glyph_index \in DOMAIN subst_map.map
    THEN [glyph_index |-> subst_map.map[glyph_index], char_width |-> char_width]
    ELSE [glyph_index |-> glyph_index, char_width |-> char_width]

\* lines 520-527: [glyph_index, char_width] after the substitution
Substitute(subst_map, glyph_index, char_width, char_height) ==
    IF char_width = char_height \div 2 /\ subst_map.computed
       /\ glyph_index \in DOMAIN subst_map.map
    THEN [glyph_index |-> subst_map.map[glyph_index], char_width |-> char_height]
    ELSE [glyph_index |-> glyph_index, char_width |-> char_width]

CanvasCalls == {"DrawRect underline", "DrawBitmap stroke", "DrawBitmap fill"}

StrokeWanted(rc) == "kCharStyleStroke" \in rc.style /\ rc.stroke_width > 0

\* A renderer that draws the underline as soon as the metrics are known.
EagerRenderSteps(rc) ==
    <<"FT_Set_Pixel_Sizes">>
    \o (IF "kCharStyleUnderline" \in rc.style /\ rc.underline_info
           /\ rc.underline_thickness > 0
        THEN <<"DrawRect underline">> ELSE <<>>)
    \o <<"FT_Load_Glyph", "FT_Get_Glyph", "FT_Glyph_To_Bitmap">>
    \o (IF StrokeWanted(rc)
        THEN <<"stroke FT_Get_Glyph", "stroke FT_Glyph_To_Bitmap", "DrawBitmap stroke">>
        ELSE <<>>)
    \o <<"DrawBitmap fill">>

\* lines 530-631: the outline library calls that can fail and the calls on
\* the canvas of the destination bitmap, in the order DrawChar makes them
RenderSteps(rc) ==
    <<"FT_Set_Pixel_Sizes", "FT_Load_Glyph", "FT_Get_Glyph", "FT_Glyph_To_Bitmap">>
    \o (IF StrokeWanted(rc)
        THEN <<"stroke FT_Get_Glyph", "stroke FT_Glyph_To_Bitmap">> ELSE <<>>)
    \o (IF "kCharStyleUnderline" \in rc.style /\ rc.underline_info
           /\ rc.underline_thickness > 0
        THEN <<"DrawRect underline">> ELSE <<>>)
    \o (IF StrokeWanted(rc) THEN <<"DrawBitmap stroke">> ELSE <<>>)
    \o <<"DrawBitmap fill">>

IsCanvasCall(step) == step \in CanvasCalls

\* The steps made until the one that fails returns kOtherError.
RECURSIVE RunSteps(_, _, _)
RunSteps(steps, fail, done) ==
    IF steps = <<>>
    THEN [status |-> "kOK", failed_at |-> "none",
          canvas_ops |-> SelectSeq(done, IsCanvasCall)]
    ELSE IF Head(steps) = fail
    THEN [status |-> "kOtherError", failed_at |-> fail,
          canvas_ops |-> SelectSeq(done, IsCanvasCall)]
    ELSE RunSteps(Tail(steps), fail, Append(done, Head(steps)))

\* lines 520-634, r being the state once the slot's map is there
Rendered(d, r, sb, run) ==
    [d EXCEPT !.r = r, !.returned = TRUE,
              !.rep = [d.rep EXCEPT !.slot = d.slot,
                                    !.glyph_index = sb.glyph_index,
                                    !.char_size = sb.requested,
                                    !.pixel_sizes = <<sb.char_width, sb.char_height>>,
                                    !.status = run.status,
                                    !.failed_at = run.failed_at,
                                    !.canvas_ops = run.canvas_ops]]

SubstituteIn(d, r, char_width, char_height, rc) ==
    Rendered(d, r,
             [char_height |-> char_height, requested |-> <<char_width, char_height>>]
               @@ Substitute(SlotMap(r, d.slot), d.glyph_index, char_width, char_height),
             RunSteps(RenderSteps(rc), rc.fail, <<>>))

\* lines 508-634
RenderStage(d, char_width, char_height, rc) ==
    SubstituteIn(d, EnsureMap(d.r, d.slot, char_width, char_height),
                 char_width, char_height, rc)

\* The renderer's variables after a call that left state r and record rep.
Finish(r, rep) ==
    /\ font_family_' = r.font_family_
    /\ main_face_' = r.main_face_
    /\ fallback_face_' = r.fallback_face_
    /\ main_face_data_' = r.main_face_data_
    /\ fallback_face_data_' = r.fallback_face_data_
    /\ main_face_index_' = r.main_face_index_
    /\ main_half_width_subst_map_' = r.main_half_width_subst_map_
    /\ fallback_half_width_subst_map_' = r.fallback_half_width_subst_map_
    /\ last' = rep

MainScenarios(r) == IF r.main_face_ = NoFace THEN OpenScenarios ELSE {NoScenario}

FallbackScenarios(r, ucs4, fallback_policy) ==
    IF NeedsFallbackLoad(r, ucs4, fallback_policy) THEN OpenScenarios ELSE {NoScenario}

\* What indexing the empty font_family_ leads to: the process dies, or the
\* provider is asked for an indeterminate name and does not know it.
UbOutcomes(d) == IF d.rep.ub THEN {"crash", "kFontNotFound"} ELSE {"defined"}

\* A SetFontFamily that stores the list and keeps whatever is loaded.
SetFontFamilyKeepFaces(r, font_family) ==
    IF font_family = <<>>
    THEN [r |-> r, ret |-> FALSE]
    ELSE [r |-> [r EXCEPT !.font_family_ = font_family], ret |-> TRUE]

\* A SetFontFamily that clears the buffers of a replaced list and keeps
\* the faces.
SetFontFamilyKeepHandles(r, font_family) ==
    IF font_family = <<>>
    THEN [r |-> r, ret |-> FALSE]
    ELSE IF r.font_family_ # <<>> /\ r.font_family_ # font_family
    THEN [r |-> [r EXCEPT !.main_face_data_ = NoData, !.fallback_face_data_ = NoData,
                          !.main_face_index_ = 0, !.font_family_ = font_family],
          ret |-> TRUE]
    ELSE [r |-> [r EXCEPT !.font_family_ = font_family], ret |-> TRUE]

\* A SetFontFamily that drops whatever is loaded on every call.
SetFontFamilyAlwaysReset(r, font_family) ==
    IF font_family = <<>>
    THEN [r |-> r, ret |-> FALSE]
    ELSE [r |-> [r EXCEPT !.main_face_ = NoFace, !.fallback_face_ = NoFace,
                          !.main_face_data_ = NoData, !.fallback_face_data_ = NoData,
                          !.main_face_index_ = 0, !.font_family_ = font_family],
          ret |-> TRUE]

\* lines 58-74
SetFontFamilyCall(r, font_family) ==
    IF font_family = <<>>
    THEN [r |-> r, ret |-> FALSE]
    ELSE IF r.font_family_ # <<>> /\ r.font_family_ # font_family
    THEN [r |-> [r EXCEPT !.main_face_ = NoFace, !.fallback_face_ = NoFace,
                          !.main_face_data_ = NoData, !.fallback_face_data_ = NoData,
                          !.main_face_index_ = 0, !.font_family_ = font_family],
          ret |-> TRUE]
    ELSE [r |-> [r EXCEPT !.font_family_ = font_family], ret |-> TRUE]

RendererIdle ==
    /\ font_family_ = <<>>
    /\ main_face_ = NoFace
    /\ fallback_face_ = NoFace
    /\ main_face_data_ = NoData
    /\ fallback_face_data_ = NoData
    /\ main_face_index_ = 0
    /\ main_half_width_subst_map_ = NoMap
    /\ fallback_half_width_subst_map_ = NoMap
    /\ last = Report("none", 32, "kAuto", <<20, 32>>)

\* The renderer after construction and Initialize().
Init == RendererIdle /\ GsubIdle /\ RangeIdle

SetFontFamily ==
    /\ last.status # "crash"
    /\ \E font_family \in FamilyLists :
         LET c == SetFontFamilyCall(RendererState, font_family)
         IN Finish(c.r, [Report("SetFontFamily", 32, "kAuto", <<20, 32>>)
                           EXCEPT !.ret = c.ret, !.font_family = font_family])
    /\ UNCHANGED <<gsubVars, rangeVars>>

\* lines 442-634.  Each stage's result is bound once it is computed.
DrawChar ==
    /\ last.status # "crash"
    /\ \E ucs4 \in CodePoints, fallback_policy \in Policies, size \in CharSizes :
         LET rep == Report("DrawChar", ucs4, fallback_policy, size)
         IN IF IsSpace(ucs4)
            THEN Finish(RendererState, rep)
            ELSE \E o1 \in MainScenarios(RendererState) :
              \E m \in {MainStage(RendererState, rep, o1)} :
                 IF m.returned
                 THEN \E u \in UbOutcomes(m) :
                        Finish(m.r, IF u = "defined" THEN m.rep
                                    ELSE [m.rep EXCEPT !.status = u])
                 ELSE \E o2 \in FallbackScenarios(m.r, ucs4, fallback_policy) :
                   \E g \in {GlyphStage(m, ucs4, fallback_policy, o2)} :
                      IF g.returned
                      THEN Finish(g.r, g.rep)
                      ELSE \E rc \in RenderCases :
                             \E e \in {RenderStage(g, size[1], size[2], rc)} :
                               Finish(e.r, e.rep)
    /\ UNCHANGED <<gsubVars, rangeVars>>

Next == SetFontFamily \/ DrawChar

Spec == Init /\ [][Next]_vars

----------------------------------------------------------------------------
InitGSUB == GsubInit /\ RangeIdle /\ RendererIdle

SpecGSUB == InitGSUB /\ [][GsubLoad]_vars

RangeNext == RangeCheck \/ RangeStep \/ RangeExit

InitRange == RangeInit /\ GsubIdle /\ RendererIdle

SpecRange == InitRange /\ [][RangeNext]_vars

----------------------------------------------------------------------------
(***************************************************************************)
(* The load specification: LoadFontFace called directly, with every        *)
(* begin_index up to the bound and with and without a code point.          *)
(***************************************************************************)
BeginIndices == {<<>>} \cup {<<i>> : i \in 0..MaxFamilies}

CodePointHints == {<<>>} \cup {<<c>> : c \in {65, 12450, 128512}}

LoadInit ==
    /\ font_family_ \in FamilyLists
    /\ main_face_ = NoFace
    /\ fallback_face_ = NoFace
    /\ main_face_data_ = NoData
    /\ fallback_face_data_ = NoData
    /\ main_face_index_ = 0
    /\ main_half_width_subst_map_ = NoMap
    /\ fallback_half_width_subst_map_ = NoMap
    /\ last = [op |-> "none", is_fallback |-> FALSE, codepoint |-> <<>>,
               begin_index |-> <<>>, ok |-> FALSE, error |-> "", calls |-> <<>>,
               ub |-> FALSE, opened |-> 0, released |-> 0]

\* One call of LoadFontFace; the face it returns is dropped by the caller.
LoadCall ==
    /\ \E is_fallback \in BOOLEAN, codepoint \in CodePointHints,
          begin_index \in BeginIndices, o \in OpenScenarios :
         \E res \in {LoadFontFace(RendererState, is_fallback, codepoint,
                                  begin_index, o)} :
           Finish(res.r, [op |-> "LoadFontFace", is_fallback |-> is_fallback,
                          codepoint |-> codepoint, begin_index |-> begin_index,
                          ok |-> res.ok, error |-> res.error, calls |-> res.calls,
                          ub |-> res.ub, opened |-> res.opened,
                          released |-> res.released])
    /\ UNCHANGED <<gsubVars, rangeVars>>

InitLoad == LoadInit /\ GsubIdle /\ RangeIdle

SpecLoad == InitLoad /\ [][LoadCall]_vars

----------------------------------------------------------------------------
(***************************************************************************)
(* Properties of the GSUB parser.                                          *)
(***************************************************************************)
\* C1: for every buffer loaded as the GSUB table, every 16-bit or 32-bit
\* read made by LoadGSUBTable, ReadScriptFeatureIndices and
\* ReadCoverageTable lies below the buffer length, the reads of lookupCount
\* and of glyphCount included.  (SpecGSUB)
C1_ReadsInBounds ==
    gpc = "done" => OutOfBounds(gsub, gsub_out) = {}

\* C2: expanding a coverage format 2 range with startGlyphID <= endGlyphID
\* ends after exactly endGlyphID - startGlyphID + 1 glyph IDs, also when
\* endGlyphID is 0xFFFF: the loop never pushes more, and has pushed exactly
\* that many when it is left.  (SpecRange)
C2_RangeEndsAfterSpan ==
    /\ rpc \in {"expand", "done"} =>
         Len(coverage) <= end_glyph_id - start_glyph_id + 1
    /\ rpc = "done" => Len(coverage) = end_glyph_id - start_glyph_id + 1

\* C3: for a GSUB table of 0 to 9 bytes LoadGSUBTable returns the empty map
\* without reading any header field.  (SpecGSUB)
C3_ShortTableUnread ==
    (gpc = "done" /\ gsub.present /\ Size(gsub) <= 9) =>
        (gsub_out.map = EmptyMap /\ gsub_out.rd = {})

----------------------------------------------------------------------------
(***************************************************************************)
(* Properties of the renderer.                                             *)
(***************************************************************************)
MapOfFace(subst_map, face) ==
    subst_map.computed => (face # NoFace /\ subst_map.src = face.font)

\* C4: after any sequence of SetFontFamily and DrawChar calls each slot's
\* cached half-width substitution map is absent or was computed from the
\* face the slot holds now.
C4_MapOfCurrentFace ==
    /\ MapOfFace(main_half_width_subst_map_, main_face_)
    /\ MapOfFace(fallback_half_width_subst_map_, fallback_face_)

\* The face the provider returns for the family at 1-based position i has
\* a glyph for ucs4.
ProviderHas(family, i, ucs4) ==
    LET result == GetFontFace(family[i], <<ucs4>>)
    IN result.ok /\ FT_Get_Char_Index([font |-> result.font], ucs4) # 0

\* C5: with a policy other than kFailOnCodePointNotFound, DrawChar returns
\* kCodePointNotFound only when the primary face lacks the code point and
\* no family at an index greater than main_face_index_ has a face with it.
C5_NotFoundOnlyIfNowhere ==
    (last.op = "DrawChar" /\ last.fallback_policy # "kFailOnCodePointNotFound"
       /\ last.status = "kCodePointNotFound") =>
        /\ main_face_ # NoFace
        /\ FT_Get_Char_Index(main_face_, last.ucs4) = 0
        /\ \A i \in (main_face_index_ + 2)..Len(font_family_) :
              ~ProviderHas(font_family_, i, last.ucs4)

\* The provider calls of a DrawChar that carry a code point: those of its
\* fallback load.
HintedCalls(calls) == SelectSeq(calls, LAMBDA c : c[2] # <<>>)

\* C6: when the primary face lacks the code point, the policy allows
\* fallback, the fallback slot is empty or its face lacks the code point
\* too, and main_face_index_ + 1 is below the family count, DrawChar asks
\* the provider for the families main_face_index_ + 1, main_face_index_ + 2,
\* ... in this order with the code point as hint, going on only past
\* families the provider fails for; the first face obtained is stored in
\* the fallback slot and drawn from when it has the glyph.  With the primary
\* face loaded by the same call from index 0 and a family with the code
\* point at index 1, the provider is called twice and the fallback slot is
\* filled from index 1.
C6_FallbackWalk ==
    [][ (/\ last'.op = "DrawChar"
         /\ ~IsSpace(last'.ucs4)
         /\ main_face_' # NoFace
         /\ FT_Get_Char_Index(main_face_', last'.ucs4) = 0
         /\ ~(last'.fallback_policy = "kFailOnCodePointNotFound")
         /\ (fallback_face_ = NoFace
               \/ FT_Get_Char_Index(fallback_face_, last'.ucs4) = 0)
         /\ main_face_index_' + 1 < Len(font_family_'))
        =>
        LET hinted == HintedCalls(last'.calls)
            n == Len(hinted)
        IN /\ n >= 1
           /\ \A k \in 1..n : hinted[k] = <<main_face_index_' + k, <<last'.ucs4>>>>
           /\ \A k \in 1..(n - 1) :
                 ~GetFontFace(font_family_'[hinted[k][1] + 1], <<last'.ucs4>>).ok
           /\ last'.fallback_load = "ok" =>
                 /\ fallback_face_' # NoFace
                 /\ fallback_face_'.index = hinted[n][1]
                 /\ fallback_face_'.font = font_family_'[hinted[n][1] + 1]
                 /\ FT_Get_Char_Index(fallback_face_', last'.ucs4) # 0 =>
                       (last'.slot = "fallback" /\ last'.pixel_sizes # <<>>)
           /\ (main_face_index_' = 0 /\ last'.main_load = "ok"
                 /\ ProviderHas(font_family_', 2, last'.ucs4)) =>
                 /\ Len(last'.calls) = 2
                 /\ last'.fallback_load = "ok" => fallback_face_'.index = 1
      ]_vars

\* C6's case: a first draw of U+30A2 with the families "A", "B" asks the
\* provider twice and draws from the fallback face of index 1.
C6_Witness ==
    /\ last.op = "DrawChar"
    /\ last.calls = << <<0, <<>>>>, <<1, <<12450>>>> >>
    /\ last.main_load = "ok"
    /\ last.fallback_load = "ok"
    /\ fallback_face_.index = 1
    /\ last.slot = "fallback"
    /\ last.status = "kOK"

\* C7: with kFailOnCodePointNotFound and a primary face that lacks the code
\* point drawn (white space is never looked up), DrawChar returns
\* kCodePointNotFound, makes no provider call for a fallback and leaves the
\* fallback slot as it was, also when the fallback face has the code point.
C7_PolicyForbidsFallback ==
    [][ (/\ last'.op = "DrawChar"
         /\ ~IsSpace(last'.ucs4)
         /\ last'.fallback_policy = "kFailOnCodePointNotFound"
         /\ main_face_' # NoFace
         /\ FT_Get_Char_Index(main_face_', last'.ucs4) = 0)
        =>
        /\ last'.status = "kCodePointNotFound"
        /\ last'.fallback_load = "none"
        /\ HintedCalls(last'.calls) = <<>>
        /\ fallback_face_' = fallback_face_
        /\ fallback_face_data_' = fallback_face_data_
        /\ fallback_half_width_subst_map_' = fallback_half_width_subst_map_
      ]_vars

\* C7's case: the policy forbids fallback while the loaded fallback face
\* has the code point.
C7_Witness ==
    /\ last.op = "DrawChar"
    /\ last.fallback_policy = "kFailOnCodePointNotFound"
    /\ last.status = "kCodePointNotFound"
    /\ main_face_ # NoFace
    /\ fallback_face_ # NoFace
    /\ FT_Get_Char_Index(fallback_face_, last.ucs4) # 0

\* C8: a DrawChar that returns a status other than kOK has issued no
\* underline rectangle, stroke blit or fill blit.
C8_ErrorLeavesBitmap ==
    (last.op = "DrawChar" /\ last.status # "kOK") => last.canvas_ops = <<>>

\* C8's case: the stroke glyph's FT_Glyph_To_Bitmap fails after the fill
\* glyph was rasterized.
C8_Witness ==
    /\ last.op = "DrawChar"
    /\ last.status = "kOtherError"
    /\ last.failed_at = "stroke FT_Glyph_To_Bitmap"
    /\ last.canvas_ops = <<>>

\* C9: a DrawChar whose fallback load fails leaves both face slots as they
\* were before the call: the fallback face loaded before is still held, and
\* so is the buffer it reads from; the primary face and its buffer are as
\* before unless the call itself loaded the primary face first.
C9_FailedFallbackKeepsSlots ==
    [][ (last'.op = "DrawChar" /\ last'.fallback_load \notin {"none", "ok"})
        =>
        /\ fallback_face_' = fallback_face_
        /\ fallback_face_.memory => fallback_face_data_' = fallback_face_data_
        /\ last'.main_load = "none" =>
              (main_face_' = main_face_ /\ main_face_data_' = main_face_data_)
      ]_vars

----------------------------------------------------------------------------
(***************************************************************************)
(* Properties of LoadFontFace.  (SpecLoad)                                 *)
(***************************************************************************)
\* The first family index a call asks the provider for.
FirstIndex(begin_index) == IF begin_index = <<>> THEN 0 ELSE begin_index[1]

\* The provider fails for every family from 0-based index first on.
AllFamiliesFail(family, first, codepoint) ==
    \A i \in (first + 1)..Len(family) : ~GetFontFace(family[i], codepoint).ok

\* C10 as stated: LoadFontFace returns kFontNotFound whenever the provider
\* fails for every family from begin_index on, whatever the errors it
\* reported, and without a provider call when the begin_index given is not
\* below the family count.
C10_AlwaysFontNotFound ==
    last.op = "LoadFontFace" =>
        /\ (last.begin_index # <<>> /\ last.begin_index[1] >= Len(font_family_)) =>
              (~last.ok /\ last.error = "kFontNotFound" /\ last.calls = <<>>)
        /\ (/\ FirstIndex(last.begin_index) < Len(font_family_)
            /\ AllFamiliesFail(font_family_, FirstIndex(last.begin_index),
                               last.codepoint)) =>
              (~last.ok /\ last.error = "kFontNotFound")

\* C10, amended: given a begin_index that is not below the family count,
\* LoadFontFace returns kFontNotFound without a provider call; when the
\* first index asked for is below the family count and the provider fails
\* for every family from there on, each of them is asked once, in order,
\* and LoadFontFace returns the error the provider reported for the last.
C10_LastProviderError ==
    last.op = "LoadFontFace" =>
        /\ (last.begin_index # <<>> /\ last.begin_index[1] >= Len(font_family_)) =>
              (~last.ok /\ last.error = "kFontNotFound" /\ last.calls = <<>>)
        /\ (/\ FirstIndex(last.begin_index) < Len(font_family_)
            /\ AllFamiliesFail(font_family_, FirstIndex(last.begin_index),
                               last.codepoint)) =>
              /\ ~last.ok
              /\ last.error =
                   GetFontFace(font_family_[Len(font_family_)], last.codepoint).error
              /\ last.calls =
                   [k \in 1..(Len(font_family_) - FirstIndex(last.begin_index)) |->
                      <<FirstIndex(last.begin_index) + k - 1, last.codepoint>>]

\* C10's case: the provider fails for two families, for the last one with
\* kCodePointNotFound.
C10_Witness ==
    /\ last.op = "LoadFontFace"
    /\ Len(last.calls) = 2
    /\ AllFamiliesFail(font_family_, FirstIndex(last.begin_index), last.codepoint)
    /\ last.error = "kCodePointNotFound"

\* The code points C11 lists as whitespace: U+0009, U+0020, U+00A0, U+1680,
\* U+2000..U+200A, U+202F, U+205F and U+3000.
WhitespaceCodePoints == {9, 32, 160, 5760, 8239, 8287, 12288} \cup (8192..8202)

\* C11: DrawChar of a whitespace code point, in every renderer state and
\* with every policy, returns kOK without a provider call and without a
\* canvas operation, and leaves both face slots, their buffers, the main
\* face index and the cached maps as they were.
C11_WhitespaceIsNoOp ==
    [][(last'.op = "DrawChar" /\ last'.ucs4 \in WhitespaceCodePoints) =>
          /\ last'.status = "kOK"
          /\ last'.canvas_ops = <<>>
          /\ last'.calls = <<>>
          /\ last'.main_load = "none" /\ last'.fallback_load = "none"
          /\ UNCHANGED <<font_family_, main_face_, fallback_face_,
                         main_face_data_, fallback_face_data_, main_face_index_,
                         main_half_width_subst_map_,
                         fallback_half_width_subst_map_>>]_vars

\* C11's case: U+3000 drawn while the main slot is empty and the family
\* list is not, where any other code point would reach the provider.
C11_Witness ==
    /\ last.op = "DrawChar" /\ last.ucs4 = 12288
    /\ main_face_ = NoFace /\ font_family_ # <<>>

\* C12: a SetFontFamily that replaces a non-empty family list by a
\* different one leaves both face slots and both buffers empty and
\* main_face_index_ at 0; and a DrawChar of a non-whitespace code point
\* that finds the main slot empty asks the provider first, for family
\* index 0 without a code point, and resolves a glyph only from a face
\* that this call has loaded.
C12_FamilyChangeResets ==
    [][/\ (/\ last'.op = "SetFontFamily"
            /\ font_family_ # <<>>
            /\ last'.font_family # <<>>
            /\ last'.font_family # font_family_) =>
              /\ font_family_' = last'.font_family
              /\ main_face_' = NoFace /\ fallback_face_' = NoFace
              /\ main_face_data_' = NoData /\ fallback_face_data_' = NoData
              /\ main_face_index_' = 0
       /\ (/\ last'.op = "DrawChar"
            /\ last'.ucs4 \notin WhitespaceCodePoints
            /\ main_face_ = NoFace
            /\ font_family_ # <<>>) =>
              /\ last'.calls # <<>>
              /\ last'.calls[1] = <<0, <<>>>>
              /\ last'.main_load # "none"
              /\ last'.slot # "none" => last'.main_load = "ok"]_vars

\* C12's case: the family list has just been replaced, and the half-width
\* map cached for the main slot shows that a face had been loaded and drawn
\* from under the list before.
C12_Witness ==
    /\ last.op = "SetFontFamily" /\ last.ret
    /\ main_half_width_subst_map_.computed
    /\ main_face_ = NoFace /\ fallback_face_ = NoFace
    /\ main_face_data_ = NoData /\ main_face_index_ = 0

\* C13: SetFontFamily with the list the renderer already holds returns true
\* and changes nothing: not the slots, not the buffers, not
\* main_face_index_, not the cached half-width maps; a DrawChar that
\* follows it and is served by a face already loaded makes no provider
\* call.  SetFontFamily with an empty list returns false and changes
\* nothing.
C13_SameListIsNoOp ==
    [][/\ (last'.op = "SetFontFamily" /\ last'.font_family = font_family_
            /\ font_family_ # <<>>) =>
              /\ last'.ret = TRUE
              /\ UNCHANGED <<font_family_, main_face_, fallback_face_,
                             main_face_data_, fallback_face_data_,
                             main_face_index_, main_half_width_subst_map_,
                             fallback_half_width_subst_map_>>
       /\ (last'.op = "SetFontFamily" /\ last'.font_family = <<>>) =>
              /\ last'.ret = FALSE
              /\ UNCHANGED <<font_family_, main_face_, fallback_face_,
                             main_face_data_, fallback_face_data_,
                             main_face_index_, main_half_width_subst_map_,
                             fallback_half_width_subst_map_>>
       /\ (/\ last.op = "SetFontFamily"
            /\ last'.op = "DrawChar"
            /\ last'.ucs4 \notin WhitespaceCodePoints
            /\ \/ /\ main_face_ # NoFace
                  /\ FT_Get_Char_Index(main_face_, last'.ucs4) # 0
               \/ /\ main_face_ # NoFace /\ fallback_face_ # NoFace
                  /\ last'.fallback_policy = "kAuto"
                  /\ FT_Get_Char_Index(fallback_face_, last'.ucs4) # 0) =>
              /\ last'.calls = <<>>
              /\ last'.main_load = "none" /\ last'.fallback_load = "none"
              /\ main_face_' = main_face_ /\ fallback_face_' = fallback_face_]_vars

\* C13's case: the list the renderer holds has been set again while both
\* slots hold a face.
C13_Witness ==
    /\ last.op = "SetFontFamily" /\ last.ret
    /\ last.font_family = font_family_
    /\ main_face_ # NoFace /\ fallback_face_ # NoFace

\* C14: when DrawChar reaches the pixel-size call with char_width equal to
\* char_height / 2 (integer division) and the half-width map of the slot it
\* draws from contains the glyph resolved for the code point, the glyph is
\* replaced by the mapped one and the pixel size is set with width
\* char_height; in every other case (another width, no map, glyph not in
\* the map) the glyph and the width passed on are the ones asked for.
C14_HalfWidthSubstitution ==
    (last.op = "DrawChar" /\ last.pixel_sizes # <<>>) =>
        LET face == IF last.slot = "main" THEN main_face_ ELSE fallback_face_
            subst_map == IF last.slot = "main" THEN main_half_width_subst_map_
                         ELSE fallback_half_width_subst_map_
            resolved == FT_Get_Char_Index(face, last.ucs4)
            char_width == last.char_size[1]
            char_height == last.char_size[2]
        IN IF /\ char_width = char_height \div 2
              /\ subst_map.computed
              /\ resolved \in DOMAIN subst_map.map
           THEN /\ last.glyph_index = subst_map.map[resolved]
                /\ last.pixel_sizes = <<char_height, char_height>>
           ELSE /\ last.glyph_index = resolved
                /\ last.pixel_sizes = <<char_width, char_height>>

\* C14's case: a glyph drawn at 15 x 31 from a face whose map contains it,
\* so the substitute is drawn at 31 x 31.
C14_Witness ==
    /\ last.op = "DrawChar" /\ last.status = "kOK"
    /\ last.char_size = <<15, 31>>
    /\ last.pixel_sizes = <<31, 31>>
    /\ last.glyph_index # FT_Get_Char_Index(main_face_, last.ucs4)
    /\ last.slot = "main"

\* C15: of the face handles LoadFontFace opened, the one it returns in Ok
\* is the only one not released when it returns; after an error return
\* (no names for a negative face index, no face of the collection matches,
\* a face of the collection cannot be opened again) every handle opened
\* has been released, and none more often than it was opened.  (SpecLoad)
C15_NoHandleLeft ==
    last.op = "LoadFontFace" =>
        /\ last.released <= last.opened
        /\ last.opened - last.released = (IF last.ok THEN 1 ELSE 0)

\* C16: DrawChar of a non-whitespace code point on a renderer whose family
\* list is empty never reads an element of the empty list: LoadFontFace
\* without begin_index fails with an error status instead of reading
\* font_family_[0].
C16_EmptyListNotIndexed ==
    [][(/\ last'.op = "DrawChar"
        /\ last'.ucs4 \notin WhitespaceCodePoints
        /\ font_family_ = <<>>) =>
          /\ ~last'.ub
          /\ last'.calls = <<>>
          /\ last'.status \in {"kFontNotFound", "kCodePointNotFound", "kOtherError"}]_vars

\* C17, as claimed: between two changes of the family list each slot's
\* face is opened once: a DrawChar that finds the primary slot populated
\* loads no primary face, and one that finds the fallback slot populated
\* loads no fallback face, whatever the code point.
C17_EachSlotOpenedOnce ==
    [][last'.op = "DrawChar" =>
          /\ main_face_ # NoFace => last'.main_load = "none"
          /\ fallback_face_ # NoFace => last'.fallback_load = "none"]_vars

\* C17, amended: a DrawChar that finds the primary slot populated loads no
\* primary face and leaves the slot and main_face_index_ alone.  The
\* fallback slot is loaded again by every DrawChar of a non-whitespace code
\* point that the primary face lacks, under a policy that allows the
\* fallback, when the fallback slot is empty or its face lacks the code
\* point too and a family follows the primary one; no other DrawChar
\* loads a fallback face, and one that loads none leaves the slot alone.
C17_PrimaryOnceFallbackOnMiss ==
    [][(last'.op = "DrawChar" /\ last'.status # "crash") =>
          /\ main_face_ # NoFace =>
                /\ last'.main_load = "none"
                /\ main_face_' = main_face_
                /\ main_face_index_' = main_face_index_
          /\ last'.fallback_load # "none" <=>
                /\ last'.ucs4 \notin WhitespaceCodePoints
                /\ main_face_' # NoFace
                /\ FT_Get_Char_Index(main_face_', last'.ucs4) = 0
                /\ last'.fallback_policy = "kAuto"
                /\ \/ fallback_face_ = NoFace
                   \/ FT_Get_Char_Index(fallback_face_, last'.ucs4) = 0
                /\ main_face_index_' + 1 < Len(font_family_)
          /\ last'.fallback_load = "none" => fallback_face_' = fallback_face_]_vars

\* C17's case: a DrawChar that found the primary slot populated has loaded
\* a fallback face into a slot whose cached map was computed from the face
\* of another font, held there before.
C17_Witness ==
    /\ last.op = "DrawChar"
    /\ last.main_load = "none" /\ last.fallback_load = "ok"
    /\ fallback_half_width_subst_map_.computed
    /\ fallback_half_width_subst_map_.src # fallback_face_.font

\* The bytes the provider hands out for a font kept in memory.
FontDataOf(font) == GetFontFace(font, <<>>).font_data

C19_FallbackAfterMain ==
    (main_face_ # NoFace /\ fallback_face_ # NoFace) =>
        /\ fallback_face_.index > main_face_index_
        /\ fallback_face_.index < Len(font_family_)
        /\ main_face_index_ < Len(font_family_)
        /\ main_face_.index = main_face_index_

\* C19's case: the provider did not know the first family, so the main
\* face comes from index 1, and the fallback face from index 2.
C19_Witness ==
    /\ main_face_ # NoFace /\ fallback_face_ # NoFace
    /\ main_face_index_ = 1
    /\ fallback_face_.index = 2

\* The entries of lookupListIndices read by a LoadGSUBTable result, and
\* the entries of lookupOffsets it read.
LookupIndicesRead(out) ==
    {r \in out.rd : Len(r) = 4 /\ r[3] = "lookupListIndices"}

LookupsResolved(out) ==
    {r \in out.rd : Len(r) = 4 /\ r[3] = "lookupOffsets"}

\* C20: in the lookup walk of the first matching feature a lookup-list
\* index i is resolved (its entry lookupOffsets[i] is read) if and only if
\* i is below feature_count, the count of the FeatureList, and the two
\* bytes of lookupOffsets[i] lie within the buffer; for any other index
\* the parse returns the empty map.  lookupCount is not part of the test.
\* (SpecGSUB)
C20_FeatureCountBoundsLookups ==
    gpc = "done" =>
        LET feature_count == GetUint16(gsub, GetOffset16(gsub, 6))
            lookup_offsets_offset == GetOffset16(gsub, 8) + 2
        IN /\ \A r \in LookupIndicesRead(gsub_out) :
                IF /\ r[4] < feature_count
                   /\ lookup_offsets_offset + r[4] * 2 + 2 <= Size(gsub)
                THEN <<lookup_offsets_offset + r[4] * 2, 2, "lookupOffsets", r[4]>>
                       \in gsub_out.rd
                ELSE /\ gsub_out.map = EmptyMap /\ gsub_out.ret
                     /\ \A q \in LookupsResolved(gsub_out) : q[4] # r[4]
           /\ \A q \in LookupsResolved(gsub_out) :
                /\ q[4] < feature_count
                /\ q[1] = lookup_offsets_offset + q[4] * 2
                /\ q[1] + 2 <= Size(gsub)

\* C20's case: a table of two lookups and one feature whose lookup-list
\* index 1, below lookupCount and within the buffer, is not resolved, and
\* the parse returns the empty map.
C20_Witness ==
    /\ gpc = "done"
    /\ gsub_out.map = EmptyMap /\ gsub_out.ret
    /\ \E r \in LookupIndicesRead(gsub_out) :
          /\ r[4] >= GetUint16(gsub, GetOffset16(gsub, 6))
          /\ r[4] < GetUint16(gsub, GetOffset16(gsub, 8))
          /\ GetOffset16(gsub, 8) + 2 + r[4] * 2 + 2 <= Size(gsub)
          /\ \A q \in LookupsResolved(gsub_out) : q[4] # r[4]

\* The calls of ReadCoverageTable a LoadGSUBTable result made.
CoveragesRead(out) == {r \in out.rd : Len(r) = 5 /\ r[3] = "coverage"}

\* The range records of the coverage format 2 table at offset, taken in
\* order with the running index (the sum of the lengths of the earlier
\* ranges): "invalid" at the first record with startGlyphID > endGlyphID
\* or another startCoverageIndex, "short" at the first record that does not
\* lie in the buffer, "valid" with the ranges when all rangeCount records
\* pass.
RECURSIVE RangeRecordsWalk(_, _, _, _, _, _)
RangeRecordsWalk(data, offset, range_index, range_count, running_index, ranges) ==
    IF range_index = range_count
    THEN [verdict |-> "valid", ranges |-> ranges]
    ELSE IF Size(data) < offset + 4 + range_index * 6 + 6
    THEN [verdict |-> "short", ranges |-> ranges]
    ELSE
      LET rec == offset + 4 + range_index * 6
          start == GetUint16(data, rec)
          end == GetUint16(data, rec + 2)
      IN IF start > end \/ GetUint16(data, rec + 4) # running_index
         THEN [verdict |-> "invalid", ranges |-> ranges]
         ELSE RangeRecordsWalk(data, offset, range_index + 1, range_count,
                  running_index + (end - start + 1), Append(ranges, <<start, end>>))

\* The glyph IDs of the ranges, each range from its start to its end
\* inclusive, in the order of the ranges.
RECURSIVE InclusiveExpansion(_)
InclusiveExpansion(ranges) ==
    IF ranges = <<>> THEN <<>>
    ELSE [k \in 1..(ranges[1][2] - ranges[1][1] + 1) |-> ranges[1][1] + k - 1]
         \o InclusiveExpansion(Tail(ranges))

\* C21: for every coverage format 2 table the parse reaches, if a range
\* record has startGlyphID > endGlyphID or a startCoverageIndex different
\* from the running index, the coverage is unavailable and LoadGSUBTable
\* returns the empty map, whatever earlier subtables have put into it;
\* when every range record passes, the coverage is the inclusive expansion
\* of the ranges, in order.  (SpecGSUB)
C21_RangeRecordsDecideCoverage ==
    gpc = "done" =>
        \A r \in CoveragesRead(gsub_out) :
           (Size(gsub) >= r[4] + 4 /\ GetUint16(gsub, r[4]) = 2) =>
              LET w == RangeRecordsWalk(gsub, r[4], 0, GetUint16(gsub, r[4] + 2),
                                        0, <<>>)
              IN /\ w.verdict = "invalid" =>
                      /\ ~r[5].hang /\ ~r[5].ok
                      /\ gsub_out.map = EmptyMap /\ gsub_out.ret
                 /\ w.verdict = "valid" =>
                      /\ ~r[5].hang /\ r[5].ok
                      /\ r[5].coverage = InclusiveExpansion(w.ranges)

====
